---- MODULE Spec2Model ----
(***************************************************************************)
(* parserlib: TerminalParser and SequenceParser applied to a ParseContext. *)
(*                                                                         *)
(* A source is a sequence of elements; a source position is an index into  *)
(* it (1 = begin, Len(source) + 1 = end).  A parse context is the record   *)
(* [pos, matches, errors].  A parser node is a record tagged by "kind".    *)
(***************************************************************************)
EXTENDS Integers, Sequences, FiniteSets, TLC

\* Longest source the model draws.
MaxLen == 3

\* Most children a SequenceParser of the model is built with.
MaxChildren == 3

\* Source elements.
Values == {"A", "B", "C"}

\* Values the terminals of the modelled grammars compare against.
TerminalValues == {"A", "B"}

RECURSIVE SeqsUpTo(_, _)
SeqsUpTo(S, n) ==
    IF n = 0 THEN {<<>>}
    ELSE LET shorter == SeqsUpTo(S, n - 1)
         IN  shorter \cup {Append(s, x) : s \in {t \in shorter : Len(t) = n - 1}, x \in S}

Sources == SeqsUpTo(Values, MaxLen)

(***************************************************************************)
(* Parser nodes.                                                           *)
(***************************************************************************)

\* terminal(v): TerminalParser<T>(v), m_terminalValue = v.
terminal(terminalValue) == [kind |-> "terminal", terminalValue |-> terminalValue]

\* SequenceParser(children): m_children = children.
SequenceParser(children) == [kind |-> "sequence", children |-> children]

\* expr == id : a parser that records a match without children.
MatchParser(expr, id) == [kind |-> "match", expr |-> expr, id |-> id]

\* ~anchor : an error resume point.
ErrorResumePoint(anchor) == [kind |-> "resume", expr |-> anchor]

IsSequence(node) == node.kind = "sequence"

(***************************************************************************)
(* operator >> : the four overloads, chosen as overload resolution chooses *)
(* them (the overload taking a SequenceParser operand is more specialised  *)
(* than the one taking any ParserNode).                                    *)
(***************************************************************************)
\* A >> that always takes the overload for two plain nodes.
operator_shr_NoFlatten(node1, node2) == SequenceParser(<<node1, node2>>)

operator_shr(node1, node2) ==
    IF IsSequence(node1) /\ IsSequence(node2)
      THEN SequenceParser(node1.children \o node2.children)
    ELSE IF IsSequence(node1)
      THEN SequenceParser(node1.children \o <<node2>>)
    ELSE IF IsSequence(node2)
      THEN SequenceParser(<<node1>> \o node2.children)
    ELSE SequenceParser(<<node1, node2>>)

(***************************************************************************)
(* ParseContext.                                                           *)
(***************************************************************************)
ParseContext(source) == [pos |-> 1, matches |-> <<>>, errors |-> <<>>]

sourceEndPosition(source) == Len(source) + 1

incrementSourcePosition(pc) == [pc EXCEPT !.pos = @ + 1]

\* The snapshot (pos, |matches|).
state(pc) == [pos |-> pc.pos, len |-> Len(pc.matches)]

\* Restoring resets pos and truncates matches to the recorded length.
setState(pc, s) ==
    [pc EXCEPT !.pos = s.pos, !.matches = SubSeq(pc.matches, 1, s.len)]

\* Match::content(): the elements of [begin, end).
content(source, match) == SubSeq(source, match.begin, match.end - 1)

(***************************************************************************)
(* Parsing.  Every parser maps (source, pc) to [ok, pc].                   *)
(***************************************************************************)
RECURSIVE Parse(_, _, _)
RECURSIVE SequenceParser_parse(_, _, _, _)

\* A terminal that does not test for the end of the source: what it reads
\* there is whatever lies behind the source, here a value equal to its own.
TerminalParser_call_NoEndCheck(node, source, pc) ==
    IF pc.pos # sourceEndPosition(source)
      THEN IF source[pc.pos] = node.terminalValue
             THEN [ok |-> TRUE, pc |-> incrementSourcePosition(pc)]
             ELSE [ok |-> FALSE, pc |-> pc]
      ELSE [ok |-> TRUE, pc |-> incrementSourcePosition(pc)]

\* A terminal that returns true without advancing the source position.
TerminalParser_call_NoAdvance(node, source, pc) ==
    IF pc.pos # sourceEndPosition(source)
      THEN IF source[pc.pos] = node.terminalValue
             THEN [ok |-> TRUE, pc |-> pc]
             ELSE [ok |-> FALSE, pc |-> pc]
      ELSE [ok |-> FALSE, pc |-> pc]

\* A terminal that does not compare the element with its value.
TerminalParser_call_NoCompare(node, source, pc) ==
    IF pc.pos # sourceEndPosition(source)
      THEN [ok |-> TRUE, pc |-> incrementSourcePosition(pc)]
      ELSE [ok |-> FALSE, pc |-> pc]

\* TerminalParser::operator()
TerminalParser_call(node, source, pc) ==
    IF pc.pos # sourceEndPosition(source)
      THEN IF source[pc.pos] = node.terminalValue
             THEN [ok |-> TRUE, pc |-> incrementSourcePosition(pc)]
             ELSE [ok |-> FALSE, pc |-> pc]
      ELSE [ok |-> FALSE, pc |-> pc]

\* A parseLeftRecursionTerminal that takes no part in left recursion.
TerminalParser_parseLeftRecursionTerminal_Refuses(node, source, pc) ==
    [ok |-> FALSE, pc |-> pc]

\* TerminalParser::parseLeftRecursionTerminal
TerminalParser_parseLeftRecursionTerminal(node, source, pc) ==
    TerminalParser_call(node, source, pc)

\* A parseLeftRecursionContinuation that parses the terminal.
TerminalParser_parseLeftRecursionContinuation_Parses(node, source, pc) ==
    TerminalParser_call(node, source, pc)

\* TerminalParser::parseLeftRecursionContinuation
TerminalParser_parseLeftRecursionContinuation(node, source, pc) ==
    [ok |-> FALSE, pc |-> pc]

\* A parse<Index> that stops one element early.
SequenceParser_parse_SkipsLast(node, Index, source, pc) ==
    IF Index + 1 < Len(node.children)
      THEN LET r == Parse(node.children[Index + 1], source, pc)
           IN  IF r.ok
                 THEN SequenceParser_parse(node, Index + 1, source, r.pc)
                 ELSE [ok |-> FALSE, pc |-> r.pc]
      ELSE [ok |-> TRUE, pc |-> pc]

\* A parse<Index> that goes on to the next element whatever this one returned.
SequenceParser_parse_IgnoreFailure(node, Index, source, pc) ==
    IF Index < Len(node.children)
      THEN LET r == Parse(node.children[Index + 1], source, pc)
           IN  SequenceParser_parse(node, Index + 1, source, r.pc)
      ELSE [ok |-> TRUE, pc |-> pc]

\* SequenceParser::parse<Index>; Index counts from 0 as in the source.
SequenceParser_parse(node, Index, source, pc) ==
    IF Index < Len(node.children)
      THEN LET r == Parse(node.children[Index + 1], source, pc)
           IN  IF r.ok
                 THEN SequenceParser_parse(node, Index + 1, source, r.pc)
                 ELSE [ok |-> FALSE, pc |-> r.pc]
      ELSE [ok |-> TRUE, pc |-> pc]

\* An operator() that records an error whenever an element fails.
SequenceParser_call_RecordsError(node, source, pc) ==
    LET saved == state(pc)
        r     == SequenceParser_parse(node, 0, source, pc)
    IN  IF ~r.ok
          THEN [ok |-> FALSE,
                pc |-> [setState(r.pc, saved) EXCEPT !.errors =
                          Append(@, [position |-> r.pc.pos])]]
          ELSE r

\* An operator() that does not restore the saved state on failure.
SequenceParser_call_NoRestore(node, source, pc) ==
    SequenceParser_parse(node, 0, source, pc)

\* SequenceParser::operator()
SequenceParser_call(node, source, pc) ==
    LET saved == state(pc)
        r     == SequenceParser_parse(node, 0, source, pc)
    IN  IF ~r.ok
          THEN [ok |-> FALSE, pc |-> setState(r.pc, saved)]
          ELSE r

\* expr == id : on success the matches expr produced are dropped and one
\* match spanning what expr consumed is appended.
MatchParser_call(node, source, pc) ==
    LET saved == state(pc)
        r     == Parse(node.expr, source, pc)
    IN  IF r.ok
          THEN [ok |-> TRUE,
                pc |-> [r.pc EXCEPT !.matches =
                          Append(SubSeq(r.pc.matches, 1, saved.len),
                                 [id |-> node.id, begin |-> saved.pos, end |-> r.pc.pos])]]
          ELSE [ok |-> FALSE, pc |-> setState(r.pc, saved)]

\* ~anchor invoked as an element: the anchor is parsed.
ErrorResumePoint_call(node, source, pc) == Parse(node.expr, source, pc)

Parse(node, source, pc) ==
    CASE node.kind = "terminal" -> TerminalParser_call(node, source, pc)
      [] node.kind = "sequence" -> SequenceParser_call(node, source, pc)
      [] node.kind = "match"    -> MatchParser_call(node, source, pc)
      [] node.kind = "resume"   -> ErrorResumePoint_call(node, source, pc)

(***************************************************************************)
(* The grammars the model draws.                                           *)
(***************************************************************************)
Terminals == {terminal(v) : v \in TerminalValues}

\* The README's a, b and c (src/unnamed/part_000:309-311).
README_a == MatchParser(terminal("A"), 0)
README_b == MatchParser(terminal("B"), 1)
README_c == MatchParser(terminal("B"), 2)
README_grammar == operator_shr(operator_shr(README_a, README_b), README_c)
README_input == <<"A", "B", "C">>

\* The match parsers the modelled sequences hold as elements.
Matches == {README_a, README_b}

ResumePoints == {ErrorResumePoint(terminal("B"))}

\* What the modelled sequences are made of.
Elements == Terminals \cup Matches

\* Sequences built with the constructor from a tuple of 0..MaxChildren elements.
FlatSequences == {SequenceParser(c) : c \in SeqsUpTo(Elements, MaxChildren)}

Pairs == {SequenceParser(<<x, y>>) : x, y \in Elements}

\* Sequences that hold a sequence as an element (built with the constructor;
\* operator >> never builds one).
NestedSequences ==
    {SequenceParser(<<p, z>>) : p \in Pairs, z \in Elements}
      \cup {SequenceParser(<<x, p>>) : x \in Elements, p \in Pairs}
      \cup {SequenceParser(<<p, q>>) : p, q \in {SequenceParser(<<x, y>>) : x, y \in Terminals}}

\* Sequences with an error resume point after their first elements.
ResumeSequences ==
    {SequenceParser(c \o <<r>> \o d) :
        c \in {t \in SeqsUpTo(Terminals, 2) : Len(t) > 0},
        r \in ResumePoints,
        d \in SeqsUpTo(Terminals, 1)}

Grammars ==
    Terminals \cup Matches \cup FlatSequences \cup NestedSequences \cup ResumeSequences
      \cup {README_grammar}

(***************************************************************************)
(* The host: it builds one grammar, constructs a parse context over a      *)
(* source, and applies the grammar or one of its elements to the context.  *)
(* call records the last application: the node, the context before it and  *)
(* what it returned.                                                       *)
(*                                                                         *)
(* In the second specification two host threads share the grammar; each    *)
(* constructs its own parse context over its own source and applies the    *)
(* grammar to it, one step of the parsing code at a time.                  *)
(***************************************************************************)
VARIABLES grammar, source, pc, call, sources, contexts, stacks, returned

vars == <<grammar, source, pc, call, sources, contexts, stacks, returned>>

hostVars == <<source, pc, call>>

threadVars == <<sources, contexts, stacks, returned>>

NoCall == [made |-> FALSE]

Init ==
    /\ grammar \in Grammars
    /\ source \in Sources
    /\ pc = ParseContext(source)
    /\ call = NoCall
    /\ sources = <<>>
    /\ contexts = <<>>
    /\ stacks = <<>>
    /\ returned = <<>>

Invoke(node) ==
    LET r == Parse(node, source, pc)
    IN  /\ pc' = r.pc
        /\ call' = [made |-> TRUE, method |-> "operator()", node |-> node,
                    pre |-> pc, ok |-> r.ok]
        /\ UNCHANGED <<grammar, source>>
        /\ UNCHANGED threadVars

ParseGrammar == Invoke(grammar)

ParseElement ==
    /\ IsSequence(grammar)
    /\ \E i \in 1..Len(grammar.children) : Invoke(grammar.children[i])

\* The terminals the host holds: the grammar or elements of it.
HeldTerminals ==
    {n \in {grammar} \cup (IF IsSequence(grammar)
                              THEN {grammar.children[i] : i \in 1..Len(grammar.children)}
                              ELSE {}) : n.kind = "terminal"}

\* terminal.parseLeftRecursionTerminal(pc)
ParseLeftRecursionTerminal ==
    \E node \in HeldTerminals :
        LET r == TerminalParser_parseLeftRecursionTerminal(node, source, pc)
        IN  /\ pc' = r.pc
            /\ call' = [made |-> TRUE, method |-> "parseLeftRecursionTerminal",
                        node |-> node, pre |-> pc, ok |-> r.ok]
            /\ UNCHANGED <<grammar, source>>
            /\ UNCHANGED threadVars

\* terminal.parseLeftRecursionContinuation(pc)
ParseLeftRecursionContinuation ==
    \E node \in HeldTerminals :
        LET r == TerminalParser_parseLeftRecursionContinuation(node, source, pc)
        IN  /\ pc' = r.pc
            /\ call' = [made |-> TRUE, method |-> "parseLeftRecursionContinuation",
                        node |-> node, pre |-> pc, ok |-> r.ok]
            /\ UNCHANGED <<grammar, source>>
            /\ UNCHANGED threadVars

Next ==
    \/ ParseGrammar
    \/ ParseElement
    \/ ParseLeftRecursionTerminal
    \/ ParseLeftRecursionContinuation

Spec == Init /\ [][Next]_vars

(***************************************************************************)
(* Two threads, one expression tree.                                       *)
(***************************************************************************)

\* Longest source a thread parses.
MaxThreadLen == 2

Threads == {1, 2}

ThreadSources == SeqsUpTo(TerminalValues, MaxThreadLen)

ThreadGrammars ==
    Elements \cup Pairs
      \cup {SequenceParser(<<p, z>>) :
              p \in {SequenceParser(<<x, y>>) : x, y \in Terminals}, z \in Elements}
      \cup {README_grammar}

\* The activation of a parser's operator(): its node, where it stands, and
\* its locals (Index of parse<Index>, the saved state, ok).
Frame(node) ==
    [node |-> node, at |-> "enter", Index |-> 0, saved |-> state(ParseContext(<<>>)),
     ok |-> FALSE]

NoReturn == [has |-> FALSE, ok |-> FALSE]

Return(ok) == [has |-> TRUE, ok |-> ok]

Top(p) == stacks[p][Len(stacks[p])]

Running(p) == stacks[p] # <<>>

Done(p) == stacks[p] = <<>> /\ returned[p].has

Pop(p) == SubSeq(stacks[p], 1, Len(stacks[p]) - 1)

SetTop(p, frame) == [stacks EXCEPT ![p] = Append(Pop(p), frame)]

Push(p, frame) == [stacks EXCEPT ![p] = Append(@, frame)]

ThreadsInit ==
    /\ grammar \in ThreadGrammars
    /\ sources \in [Threads -> ThreadSources]
    /\ contexts = [p \in Threads |-> ParseContext(sources[p])]
    /\ stacks = [p \in Threads |-> <<>>]
    /\ returned = [p \in Threads |-> NoReturn]
    /\ source = <<>>
    /\ pc = ParseContext(source)
    /\ call = NoCall

\* const bool ok = grammar(pc);
Start(p) ==
    /\ ~Running(p)
    /\ ~returned[p].has
    /\ stacks' = Push(p, Frame(grammar))
    /\ UNCHANGED <<grammar, sources, contexts, returned>>
    /\ UNCHANGED hostVars

\* A terminal whose position is shared by every context.
TerminalStep_SharedPosition(p) ==
    /\ Running(p)
    /\ Top(p).node.kind = "terminal"
    /\ LET r == TerminalParser_call(Top(p).node, sources[p], contexts[p])
       IN  /\ contexts' = [q \in Threads |->
                             IF q = p THEN r.pc
                             ELSE IF r.ok /\ contexts[q].pos # sourceEndPosition(sources[q])
                               THEN incrementSourcePosition(contexts[q])
                               ELSE contexts[q]]
           /\ returned' = [returned EXCEPT ![p] = Return(r.ok)]
    /\ stacks' = [stacks EXCEPT ![p] = Pop(p)]
    /\ UNCHANGED <<grammar, sources>>
    /\ UNCHANGED hostVars

\* TerminalParser::operator()
TerminalStep(p) ==
    /\ Running(p)
    /\ Top(p).node.kind = "terminal"
    /\ LET r == TerminalParser_call(Top(p).node, sources[p], contexts[p])
       IN  /\ contexts' = [contexts EXCEPT ![p] = r.pc]
           /\ returned' = [returned EXCEPT ![p] = Return(r.ok)]
    /\ stacks' = [stacks EXCEPT ![p] = Pop(p)]
    /\ UNCHANGED <<grammar, sources>>
    /\ UNCHANGED hostVars

\* SequenceParser::operator(): const auto state = pc.state();
SequenceEnter(p) ==
    /\ Running(p)
    /\ IsSequence(Top(p).node)
    /\ Top(p).at = "enter"
    /\ stacks' = SetTop(p, [Top(p) EXCEPT !.at = "parse", !.Index = 0,
                                          !.saved = state(contexts[p])])
    /\ UNCHANGED <<grammar, sources, contexts, returned>>
    /\ UNCHANGED hostVars

\* parse<Index>: std::get<Index>(m_children)(pc) is called.
SequenceCallChild(p) ==
    /\ Running(p)
    /\ IsSequence(Top(p).node)
    /\ Top(p).at = "parse"
    /\ ~returned[p].has
    /\ Top(p).Index < Len(Top(p).node.children)
    /\ stacks' = Push(p, Frame(Top(p).node.children[Top(p).Index + 1]))
    /\ UNCHANGED <<grammar, sources, contexts, returned>>
    /\ UNCHANGED hostVars

\* A parse<Index> that goes on with parse<Index + 1> whatever the child returned.
SequenceChildReturned_IgnoresResult(p) ==
    /\ Running(p)
    /\ IsSequence(Top(p).node)
    /\ Top(p).at = "parse"
    /\ returned[p].has
    /\ stacks' = SetTop(p, [Top(p) EXCEPT !.Index = @ + 1])
    /\ returned' = [returned EXCEPT ![p] = NoReturn]
    /\ UNCHANGED <<grammar, sources, contexts>>
    /\ UNCHANGED hostVars

\* parse<Index>: the child returned; go on with parse<Index + 1> or return false.
SequenceChildReturned(p) ==
    /\ Running(p)
    /\ IsSequence(Top(p).node)
    /\ Top(p).at = "parse"
    /\ returned[p].has
    /\ stacks' = SetTop(p, IF returned[p].ok
                             THEN [Top(p) EXCEPT !.Index = @ + 1]
                             ELSE [Top(p) EXCEPT !.at = "exit", !.ok = FALSE])
    /\ returned' = [returned EXCEPT ![p] = NoReturn]
    /\ UNCHANGED <<grammar, sources, contexts>>
    /\ UNCHANGED hostVars

\* parse<sizeof...(Children)> returns true.
SequenceParsed(p) ==
    /\ Running(p)
    /\ IsSequence(Top(p).node)
    /\ Top(p).at = "parse"
    /\ ~returned[p].has
    /\ Top(p).Index = Len(Top(p).node.children)
    /\ stacks' = SetTop(p, [Top(p) EXCEPT !.at = "exit", !.ok = TRUE])
    /\ UNCHANGED <<grammar, sources, contexts, returned>>
    /\ UNCHANGED hostVars

\* A sequence whose restore reaches every context.
SequenceExit_AllContexts(p) ==
    /\ Running(p)
    /\ IsSequence(Top(p).node)
    /\ Top(p).at = "exit"
    /\ contexts' = IF Top(p).ok THEN contexts
                   ELSE [q \in Threads |-> setState(contexts[q], Top(p).saved)]
    /\ returned' = [returned EXCEPT ![p] = Return(Top(p).ok)]
    /\ stacks' = [stacks EXCEPT ![p] = Pop(p)]
    /\ UNCHANGED <<grammar, sources>>
    /\ UNCHANGED hostVars

\* SequenceParser::operator(): if (!ok) pc.setState(state); return ok;
SequenceExit(p) ==
    /\ Running(p)
    /\ IsSequence(Top(p).node)
    /\ Top(p).at = "exit"
    /\ contexts' = IF Top(p).ok THEN contexts
                   ELSE [contexts EXCEPT ![p] = setState(@, Top(p).saved)]
    /\ returned' = [returned EXCEPT ![p] = Return(Top(p).ok)]
    /\ stacks' = [stacks EXCEPT ![p] = Pop(p)]
    /\ UNCHANGED <<grammar, sources>>
    /\ UNCHANGED hostVars

\* expr == id: the state is saved and expr is called.
MatchEnter(p) ==
    /\ Running(p)
    /\ Top(p).node.kind = "match"
    /\ Top(p).at = "enter"
    /\ stacks' = [stacks EXCEPT ![p] =
                    Append(Append(Pop(p), [Top(p) EXCEPT !.at = "exit",
                                                         !.saved = state(contexts[p])]),
                           Frame(Top(p).node.expr))]
    /\ UNCHANGED <<grammar, sources, contexts, returned>>
    /\ UNCHANGED hostVars

\* expr == id: expr returned; the match is appended or the state restored.
MatchExit(p) ==
    /\ Running(p)
    /\ Top(p).node.kind = "match"
    /\ Top(p).at = "exit"
    /\ returned[p].has
    /\ contexts' = [contexts EXCEPT ![p] =
                      IF returned[p].ok
                        THEN [@ EXCEPT !.matches =
                                Append(SubSeq(@, 1, Top(p).saved.len),
                                       [id |-> Top(p).node.id,
                                        begin |-> Top(p).saved.pos,
                                        end |-> contexts[p].pos])]
                        ELSE setState(@, Top(p).saved)]
    /\ stacks' = [stacks EXCEPT ![p] = Pop(p)]
    /\ UNCHANGED <<grammar, sources, returned>>
    /\ UNCHANGED hostVars

ThreadsNext ==
    \E p \in Threads :
        \/ Start(p)
        \/ TerminalStep(p)
        \/ SequenceEnter(p)
        \/ SequenceCallChild(p)
        \/ SequenceChildReturned(p)
        \/ SequenceParsed(p)
        \/ SequenceExit(p)
        \/ MatchEnter(p)
        \/ MatchExit(p)

SpecThreads == ThreadsInit /\ [][ThreadsNext]_vars

(***************************************************************************)
(* What the claims speak of.                                               *)
(***************************************************************************)

\* The elements of a sequence applied one after the other from pc0, each
\* from the context the one before it left; r[i] is the outcome of element
\* i, and a failure stops the run.
ChildResults(children, src, pc0) ==
    LET r[i \in 0..Len(children)] ==
          IF i = 0 THEN [ok |-> TRUE, pc |-> pc0]
          ELSE IF r[i - 1].ok THEN Parse(children[i], src, r[i - 1].pc)
          ELSE [ok |-> FALSE, pc |-> r[i - 1].pc]
    IN  r

IsPrefix(s, t) == Len(s) <= Len(t) /\ SubSeq(t, 1, Len(s)) = s

SequenceCalled == call.made /\ call.method = "operator()" /\ IsSequence(call.node)

TerminalCalled ==
    call.made /\ call.method = "operator()" /\ call.node.kind = "terminal"

\* C1: when SequenceParser::operator() returns false, the position and the
\* length of the match list are what they were before the call.
C1_RollbackPurity ==
    (SequenceCalled /\ ~call.ok) =>
        /\ pc.pos = call.pre.pos
        /\ Len(pc.matches) = Len(call.pre.matches)

\* A sequence failed after its first element had consumed input and
\* appended a match, on a context that was not fresh.
C1_Witness ==
    /\ SequenceCalled
    /\ ~call.ok
    /\ call.pre.pos > 1
    /\ call.pre.matches # <<>>
    /\ Len(call.node.children) >= 2
    /\ LET first == Parse(call.node.children[1], source, call.pre)
       IN  /\ first.ok
           /\ first.pc.pos > call.pre.pos
           /\ Len(first.pc.matches) > Len(call.pre.matches)

\* C2: a sequence succeeds iff every element succeeds in declaration order,
\* each from the context the previous one left; on success the position is
\* the one the last element left.
C2_SequenceIffAllChildren ==
    SequenceCalled =>
        LET n == Len(call.node.children)
            r == ChildResults(call.node.children, source, call.pre)
        IN  /\ call.ok <=> (\A i \in 1..n : r[i].ok)
            /\ call.ok => pc.pos = r[n].pc.pos

\* A sequence of three elements succeeded, every element advancing.
C2_Witness ==
    /\ SequenceCalled
    /\ call.ok
    /\ Len(call.node.children) = 3
    /\ pc.pos = call.pre.pos + 3

\* C3: Terminal(v) returns true iff the position is not the end and the
\* element there equals v; on true the position advanced by one, on false
\* it is unchanged; the match list is unchanged either way.
C3_Terminal ==
    TerminalCalled =>
        /\ call.ok <=> (/\ call.pre.pos # sourceEndPosition(source)
                        /\ source[call.pre.pos] = call.node.terminalValue)
        /\ call.ok => pc.pos = call.pre.pos + 1
        /\ ~call.ok => pc.pos = call.pre.pos
        /\ pc.matches = call.pre.matches

\* A terminal matched in the middle of a source, with matches recorded.
C3_Witness ==
    /\ TerminalCalled
    /\ call.ok
    /\ call.pre.pos > 1
    /\ call.pre.matches # <<>>

\* The elements operator >> takes from an operand.
ChildrenOf(node) == IF IsSequence(node) THEN node.children ELSE <<node>>

\* C4: operator >> on operands of which one or both are sequences yields one
\* sequence of the operands' elements in order; (a >> b) >> c and
\* a >> (b >> c) are both [a, b, c]; and the flattened sequence gives the
\* result, position and matches of the nested sequence it stands for.
C4_Flatten ==
    (SequenceCalled /\ Len(call.node.children) = 2) =>
        LET x == call.node.children[1]
            y == call.node.children[2]
            flat == operator_shr(x, y)
        IN  /\ IsSequence(flat)
            /\ flat.children = ChildrenOf(x) \o ChildrenOf(y)
            /\ \A z \in Elements :
                  /\ operator_shr(flat, z) = operator_shr(x, operator_shr(y, z))
                  /\ operator_shr(flat, z).children = flat.children \o <<z>>
            /\ Parse(flat, source, call.pre) = [ok |-> call.ok, pc |-> pc]

\* The nested Sequence(Sequence(a, b), c) was applied and succeeded with
\* matches; a >> b >> c is [a, b, c].
C4_Witness ==
    /\ SequenceCalled
    /\ call.ok
    /\ Len(call.node.children) = 2
    /\ IsSequence(call.node.children[1])
    /\ ~IsSequence(call.node.children[2])
    /\ Len(pc.matches) > Len(call.pre.matches)
    /\ operator_shr(call.node.children[1], call.node.children[2]).children
         = call.node.children[1].children \o <<call.node.children[2]>>

\* The README's expected output: content() = id() of every match, in order.
Listing(src, matches) ==
    [i \in 1..Len(matches) |-> <<content(src, matches[i]), matches[i].id>>]

\* C5: the README's grammar a >> b >> c applied to a fresh context over
\* "ABC" leaves the three matches ("A", 0), ("B", 1), ("C", 2).
C5_README_SimpleMatches ==
    (/\ grammar = README_grammar
     /\ source = README_input
     /\ call.made
     /\ call.node = grammar
     /\ call.pre = ParseContext(source)) =>
        Listing(source, pc.matches) = << <<(<<"A">>), 0>>, <<(<<"B">>), 1>>, <<(<<"C">>), 2>> >>

RECURSIVE HasResumePoint(_)
HasResumePoint(node) ==
    CASE node.kind = "resume"   -> TRUE
      [] node.kind = "sequence" ->
           \E i \in 1..Len(node.children) : HasResumePoint(node.children[i])
      [] node.kind = "match"    -> HasResumePoint(node.expr)
      [] OTHER                  -> FALSE

\* The index of the first element that fails (0 when none does).
FirstFailure(children, src, pc0) ==
    LET r == ChildResults(children, src, pc0)
        failing == {i \in 1..Len(children) : ~r[i].ok}
    IN  IF failing = {} THEN 0 ELSE CHOOSE i \in failing : \A j \in failing : i <= j

\* The positions from p on at which the anchor parses.
AnchorPositions(anchor, src, p, base) ==
    {q \in p..Len(src) : Parse(anchor, src, [base EXCEPT !.pos = q]).ok}

\* C6: when an element of a sequence fails and a later element is an error
\* resume point, the sequence records one error at the position of the
\* failure, skips to the anchor, and succeeds if the anchor and the
\* elements after it parse, or fails if the end of the source is reached.
C6_ErrorResume ==
    SequenceCalled =>
        LET ch == call.node.children
            r  == ChildResults(ch, source, call.pre)
            f  == FirstFailure(ch, source, call.pre)
            later == {j \in (f + 1)..Len(ch) : ch[j].kind = "resume"}
        IN  (f > 0 /\ later # {}) =>
              LET j == CHOOSE k \in later : \A l \in later : k <= l
                  p == r[f].pc.pos
                  found == AnchorPositions(ch[j].expr, source, p, r[f].pc)
              IN  /\ Len(pc.errors) = Len(call.pre.errors) + 1
                  /\ pc.errors[Len(pc.errors)].position = p
                  /\ found = {} => ~call.ok
                  /\ found # {} =>
                        LET q == CHOOSE k \in found : \A l \in found : k <= l
                            rest == ChildResults(SubSeq(ch, j, Len(ch)), source,
                                                 [r[f].pc EXCEPT !.pos = q])
                        IN  (\A i \in 1..(Len(ch) - j + 1) : rest[i].ok) => call.ok

\* C7: a sequence without an error resume point of which an element fails
\* returns false and leaves the recorded errors as they were.
C7_NoResumeNoError ==
    (/\ SequenceCalled
     /\ ~HasResumePoint(call.node)
     /\ FirstFailure(call.node.children, source, call.pre) > 0) =>
        /\ ~call.ok
        /\ pc.errors = call.pre.errors

\* The third element of a sequence without resume point failed after the
\* first two had advanced.
C7_Witness ==
    /\ SequenceCalled
    /\ ~HasResumePoint(call.node)
    /\ FirstFailure(call.node.children, source, call.pre) = 3
    /\ ~call.ok

\* C8: when Terminal or Sequence returns true the position has not moved
\* back (it is one further for Terminal) and the matches present before the
\* call are an unchanged prefix of the matches after it.
C8_SuccessExtends ==
    ((TerminalCalled \/ SequenceCalled) /\ call.ok) =>
        /\ pc.pos >= call.pre.pos
        /\ TerminalCalled => pc.pos = call.pre.pos + 1
        /\ IsPrefix(call.pre.matches, pc.matches)

\* A sequence succeeded on a context holding matches and appended to them.
C8_Witness ==
    /\ SequenceCalled
    /\ call.ok
    /\ call.pre.matches # <<>>
    /\ Len(pc.matches) > Len(call.pre.matches)
    /\ pc.pos > call.pre.pos

\* What thread p's parse leaves: the value returned and the context.
Outcome(p) == [ok |-> returned[p].ok, pc |-> contexts[p]]

\* What the grammar leaves when applied alone to a fresh context over src.
Alone(src) == Parse(grammar, src, ParseContext(src))

\* C9: the same grammar applied to the same source from two fresh contexts
\* gives the same result, the same final position and the same matches.
C9_SameOutcome ==
    (Done(1) /\ Done(2) /\ sources[1] = sources[2]) =>
        /\ returned[1].ok = returned[2].ok
        /\ contexts[1].pos = contexts[2].pos
        /\ contexts[1].matches = contexts[2].matches

\* Both parses of one source succeeded and recorded matches.
C9_Witness ==
    /\ Done(1)
    /\ Done(2)
    /\ sources[1] = sources[2]
    /\ returned[1].ok
    /\ IsSequence(grammar)
    /\ contexts[1].matches # <<>>
    /\ contexts[2].pos > 1

\* C10: however the steps of two parses that share the expression tree are
\* interleaved, each context ends as if its parse had run alone, and no
\* step changes the expression tree.
C10_Interleaving ==
    /\ [](\A p \in Threads : Done(p) => Outcome(p) = Alone(sources[p]))
    /\ [][grammar' = grammar]_vars

\* One parse has finished with a rollback while the other, on another
\* source, is in the middle of the sequence.
C10_Witness ==
    /\ Done(1)
    /\ ~returned[1].ok
    /\ Running(2)
    /\ sources[1] # sources[2]
    /\ IsSequence(grammar)
    /\ contexts[2].pos > 1

\* C12: the position stays within [begin, end] whatever is applied to the
\* context, and a terminal applied at the end returns false and does not
\* advance.
C12_PositionInRange ==
    /\ pc.pos \in 1..sourceEndPosition(source)
    /\ (TerminalCalled /\ call.pre.pos = sourceEndPosition(source)) =>
          /\ ~call.ok
          /\ pc.pos = call.pre.pos

\* A terminal was applied at the end of a source that earlier calls had
\* consumed.
C12_Witness ==
    /\ TerminalCalled
    /\ call.pre.pos = sourceEndPosition(source)
    /\ call.pre.pos > 1
    /\ ~call.ok

\* The sequence is made of terminals only.
IsTerminalSequence(node) ==
    /\ IsSequence(node)
    /\ \A i \in 1..Len(node.children) : node.children[i].kind = "terminal"

\* The source from position p on starts with the values of the terminals.
StartsWith(src, p, terminals) ==
    /\ p + Len(terminals) - 1 <= Len(src)
    /\ \A i \in 1..Len(terminals) : src[p + i - 1] = terminals[i].terminalValue

\* C13: a sequence of n terminals returns true exactly when the source from
\* the position on starts with their values in order, and then advances by
\* n; otherwise it returns false with the position unchanged.
C13_AllOrNothing ==
    (SequenceCalled /\ IsTerminalSequence(call.node)) =>
        LET t == call.node.children
        IN  /\ call.ok <=> StartsWith(source, call.pre.pos, t)
            /\ call.ok => pc.pos = call.pre.pos + Len(t)
            /\ ~call.ok => pc.pos = call.pre.pos

\* Three terminals were applied past the begin; the first two matched, the
\* third did not, and the position is where it was.
C13_Witness ==
    /\ SequenceCalled
    /\ IsTerminalSequence(call.node)
    /\ Len(call.node.children) = 3
    /\ call.pre.pos > 1
    /\ StartsWith(source, call.pre.pos, SubSeq(call.node.children, 1, 2))
    /\ ~call.ok
    /\ pc.pos = call.pre.pos

\* C14: parseLeftRecursionContinuation of a terminal returns false and
\* leaves position and matches as they were, whatever the current element.
C14_NoContinuation ==
    (call.made /\ call.method = "parseLeftRecursionContinuation") =>
        /\ ~call.ok
        /\ pc.pos = call.pre.pos
        /\ pc.matches = call.pre.matches

\* The continuation was asked for where the current element equals the
\* terminal's value, on a context holding matches.
C14_Witness ==
    /\ call.made
    /\ call.method = "parseLeftRecursionContinuation"
    /\ call.pre.pos # sourceEndPosition(source)
    /\ source[call.pre.pos] = call.node.terminalValue
    /\ call.pre.matches # <<>>
    /\ ~call.ok

\* C15: parseLeftRecursionTerminal returns what operator() returns on an
\* identical context and leaves the same position and matches.
C15_LeftRecursionTerminal ==
    (call.made /\ call.method = "parseLeftRecursionTerminal") =>
        LET r == Parse(call.node, source, call.pre)
        IN  /\ call.ok = r.ok
            /\ pc.pos = r.pc.pos
            /\ pc.matches = r.pc.matches

\* parseLeftRecursionTerminal matched past the begin of the source.
C15_Witness ==
    /\ call.made
    /\ call.method = "parseLeftRecursionTerminal"
    /\ call.ok
    /\ call.pre.pos > 1
    /\ pc.pos = call.pre.pos + 1

\* Thread p takes the step.
Moves(p) == stacks'[p] # stacks[p]

\* The step calls a parser: a new activation lies on p's innermost one.
Calls(p) == Len(stacks'[p]) = Len(stacks[p]) + 1

\* p's innermost activation after a step that neither called nor returned.
TopAfter(p) == stacks'[p][Len(stacks[p])]

\* What a step of thread p does when p's innermost activation is a
\* sequence: the first child called is child 0; child Index is called only
\* when nothing is pending; a true moves on to Index + 1 without a call; a
\* false ends the calls; and a failed sequence restores and returns false.
SequenceStepInOrder(p) ==
    LET f == Top(p)
    IN  /\ \A d \in 1..(Len(stacks[p]) - 1) :
              d <= Len(stacks'[p]) => stacks'[p][d] = stacks[p][d]
        /\ f.at = "enter" =>
              /\ ~Calls(p)
              /\ Len(stacks'[p]) = Len(stacks[p])
              /\ TopAfter(p).at = "parse"
              /\ TopAfter(p).Index = 0
        /\ Calls(p) =>
              /\ f.at = "parse"
              /\ ~returned[p].has
              /\ f.Index < Len(f.node.children)
              /\ stacks'[p] = Append(stacks[p], Frame(f.node.children[f.Index + 1]))
        /\ (f.at = "parse" /\ returned[p].has /\ returned[p].ok) =>
              /\ Len(stacks'[p]) = Len(stacks[p])
              /\ TopAfter(p).at = "parse"
              /\ TopAfter(p).Index = f.Index + 1
              /\ ~returned'[p].has
        /\ (f.at = "parse" /\ returned[p].has /\ ~returned[p].ok) =>
              /\ Len(stacks'[p]) = Len(stacks[p])
              /\ TopAfter(p).at = "exit"
              /\ ~TopAfter(p).ok
              /\ TopAfter(p).Index = f.Index
        /\ (f.at = "exit" /\ ~f.ok) =>
              /\ stacks'[p] = Pop(p)
              /\ returned'[p] = Return(FALSE)
              /\ state(contexts'[p]) = f.saved

\* C11: a sequence calls its children in index order 0, 1, 2, ..., child
\* i + 1 only after child i returned true, and after a false it calls no
\* further child before it restores the saved state and returns false.
C11_ShortCircuitInOrder ==
    [][\A p \in Threads :
          (Moves(p) /\ Running(p) /\ IsSequence(Top(p).node)) => SequenceStepInOrder(p)]_vars

\* The second child of a sequence of three has returned false after the
\* first had advanced; the sequence is about to restore and return, the
\* third child uncalled.
C11_Witness ==
    /\ Running(1)
    /\ IsSequence(Top(1).node)
    /\ Top(1).at = "exit"
    /\ ~Top(1).ok
    /\ Top(1).Index = 1
    /\ Len(Top(1).node.children) = 3
    /\ contexts[1].pos > Top(1).saved.pos

====
